---- MODULE Spec2Model ----
(***************************************************************************)
(* Model of dapka: the pull-request collection and reconciliation of       *)
(* cli.main, the fetchers of repo_utils and the CSV helpers of             *)
(* input_output.                                                           *)
(*                                                                         *)
(* Python's None is the empty tuple <<>> and a present value v is <<v>>,   *)
(* so that a nullable field can be compared whatever it holds.             *)
(***************************************************************************)
EXTENDS Integers, Sequences, FiniteSets, TLC

VARIABLES
    args,              \* parsed command line: [status, csv_write]
    pc,                \* position of main
    error,             \* exception that left main, "none" while there is none
    prs_with_reviews,  \* result of get_pr_comments
    pr_2_AI_reviews,   \* dict PR number -> matching reviews, as a list of items
    pos,               \* next (PR, review) pair, then next sampled PR, to process
    df,                \* records of the AI rows, then the final table
    latest_prs,        \* result of get_list_of_all_prs
    non_ai_prs,        \* list(set(latest_prs) - set(ai_review_pr_numbers))
    non_ai_records,    \* records of the non-AI rows
    cmds,              \* external commands issued so far, with their exit status
    csv_file,          \* pr_reviews_with_and_wo_ai.csv: None or <<table>>
    histograms,        \* figures drawn by the entry point's plot_histogram
    fn                 \* call state of a function exercised on its own

vars == <<args, pc, error, prs_with_reviews, pr_2_AI_reviews, pos, df,
          latest_prs, non_ai_prs, non_ai_records, cmds, csv_file, histograms, fn>>

mainVars == <<args, pc, error, prs_with_reviews, pr_2_AI_reviews, pos, df,
              latest_prs, non_ai_prs, non_ai_records, cmds, csv_file, histograms>>

----------------------------------------------------------------------------
(* Bounds of the model *)

\* PR numbers are 1..MaxPR
MaxPR == 4

\* reviews in one review listing
MaxReviews == 2

None == <<>>

Some(v) == <<v>>

Range(s) == {s[i] : i \in 1..Len(s)}

Min(a, b) == IF a <= b THEN a ELSE b

\* the elements of a finite set of integers, ascending
RECURSIVE Ascending(_)
Ascending(S) ==
    IF S = {} THEN <<>>
    ELSE LET x == CHOOSE y \in S : \A z \in S : y <= z
         IN <<x>> \o Ascending(S \ {x})

\* list(S) for a set S whose first n elements are then sliced off: the order
\* of a set is not the program's to choose, so any n elements may come first.
\* One ordering stands for all those with the same elements in the first n places.
ListOfSet(S, n) ==
    {Ascending(A) \o Ascending(S \ A) :
        A \in {B \in SUBSET S : Cardinality(B) = Min(n, Cardinality(S))}}

\* s[:n]
Prefix(s, n) == SubSeq(s, 1, Min(n, Len(s)))

----------------------------------------------------------------------------
(* Command line *)

Statuses == {"open", "closed", "all", "merged"}

AILogin == "copilot-pull-request-reviewer"

\* author of a review: the target login, another login, or no author key
NoAuthor == "<no author>"

Logins == {AILogin, "octocat", NoAuthor}

----------------------------------------------------------------------------
(* datetime arithmetic used by get_pr_open_closed_and_state.  A timestamp  *)
(* "%Y-%m-%dT%H:%M:%SZ" is the tuple <<Y, m, d, H, M, S>> of its fields.   *)

is_leap(y) == y % 4 = 0 /\ (y % 100 # 0 \/ y % 400 = 0)

days_before_year(year) ==
    LET y == year - 1
    IN y * 365 + (y \div 4) - (y \div 100) + (y \div 400)

DAYS_BEFORE_MONTH == <<0, 31, 59, 90, 120, 151, 181, 212, 243, 273, 304, 334>>

days_before_month(y, m) ==
    DAYS_BEFORE_MONTH[m] + (IF m > 2 /\ is_leap(y) THEN 1 ELSE 0)

\* dt.strptime(...).toordinal()
ymd2ord(t) == days_before_year(t[1]) + days_before_month(t[1], t[2]) + t[3]

SecondOfDay(t) == t[4] * 3600 + t[5] * 60 + t[6]

\* (merge_time - create_time).total_seconds()
total_seconds(merge_time, create_time) ==
    (ymd2ord(merge_time) - ymd2ord(create_time)) * 86400
        + (SecondOfDay(merge_time) - SecondOfDay(create_time))

\* timedelta.seconds in place of total_seconds(): the days are lost
time_to_merge_seconds_attribute(data) ==
    IF data.createdAt # None /\ data.mergedAt # None
    THEN Some((SecondOfDay(data.mergedAt[1]) - SecondOfDay(data.createdAt[1])) % 86400)
    ELSE None

\* `if pr_state['createdAt'] and pr_state['mergedAt']`
time_to_merge(data) ==
    IF data.createdAt # None /\ data.mergedAt # None
    THEN Some(total_seconds(data.mergedAt[1], data.createdAt[1]))
    ELSE None

\* the dict built from the JSON of `gh pr view`, with the derived field
get_pr_open_closed_and_state(data) ==
    [id |-> data.id, createdAt |-> data.createdAt, mergedAt |-> data.mergedAt,
     time_to_merge_in_seconds |-> time_to_merge(data)]

----------------------------------------------------------------------------
(* Text produced by the external tools: a string is a sequence of          *)
(* one-character strings.                                                  *)

Digits == <<"0", "1", "2", "3", "4", "5", "6", "7", "8", "9">>

NL == "\n"

DigitValue(c) == (CHOOSE i \in 1..10 : Digits[i] = c) - 1

\* str(n) for n >= 0
RECURSIVE str(_)
str(n) == IF n < 10 THEN <<Digits[n + 1]>> ELSE str(n \div 10) \o <<Digits[(n % 10) + 1]>>

\* int(s) for a non-empty string of digits
RECURSIVE int(_)
int(s) ==
    IF Len(s) = 1 THEN DigitValue(s[1])
    ELSE 10 * int(SubSeq(s, 1, Len(s) - 1)) + DigitValue(s[Len(s)])

\* s.split('\n'): the pieces between newlines, empty ones included
RECURSIVE Split(_)
Split(s) ==
    IF \A i \in 1..Len(s) : s[i] # NL THEN <<s>>
    ELSE LET i == CHOOSE k \in 1..Len(s) : s[k] = NL /\ \A j \in 1..(k - 1) : s[j] # NL
         IN <<SubSeq(s, 1, i - 1)>> \o Split(SubSeq(s, i + 1, Len(s)))

\* jq '.[].number' prints each number on a line of its own
RECURSIVE JqLines(_)
JqLines(nums) ==
    IF nums = <<>> THEN <<>> ELSE str(nums[1]) \o <<NL>> \o JqLines(Tail(nums))

NonEmptyLines(pieces) ==
    LET NonEmpty(x) == Len(x) > 0 IN SelectSeq(pieces, NonEmpty)

\* get_list_of_all_prs on one run of `gh pr list ... | jq '.[].number'`.
\* The shell reports the status of the last command of the pipeline, jq.
get_list_of_all_prs(run) ==
    IF run.jq_rc # 0
    THEN [raised |-> TRUE, value |-> <<>>]
    ELSE LET lines == NonEmptyLines(Split(run.stdout))
         IN [raised |-> FALSE, value |-> [i \in 1..Len(lines) |-> int(lines[i])]]

----------------------------------------------------------------------------
(* What the external tools can answer *)

\* a review of PR p, the i-th of its listing entry
Review(p, i, login) == [id |-> 10 * p + i, login |-> login]

ReviewLists(n) == UNION {[1..k -> Logins] : k \in 0..n}

\* one entry per PR p, p-1, .. 1 (newest first), `budget` reviews at most in all
RECURSIVE ListingsFrom(_, _)
ListingsFrom(p, budget) ==
    IF p = 0 THEN {<<>>}
    ELSE UNION {
        {<<[number |-> p,
            reviews |-> [i \in 1..Len(ls) |-> Review(p, i, ls[i])]]>> \o rest :
            rest \in ListingsFrom(p - 1, budget - Len(ls))} :
        ls \in ReviewLists(budget)}

\* JSON answers of `gh pr list --json number,reviews`
ReviewListings == UNION {ListingsFrom(m, MaxReviews) : m \in 0..MaxPR}

T0 == <<2024, 1, 1, 0, 0, 0>>

T1 == <<2024, 1, 2, 0, 0, 0>>

\* JSON answers of `gh pr view p`: with --state merged every listed PR is merged
PrViews(p, status) ==
    {[id |-> Some(1000 + p), createdAt |-> Some(T0), mergedAt |-> m] :
        m \in IF status = "merged" THEN {Some(T1)} ELSE {None, Some(T1)}}

\* n, n-1, .. 1
RECURSIVE Newest(_)
Newest(n) == IF n = 0 THEN <<>> ELSE <<n>> \o Newest(n - 1)

\* runs of `gh pr list --json number | jq '.[].number'`: gh prints nothing on
\* its standard output when it fails, and jq prints nothing for no input
ListRuns ==
    {[gh_rc |-> 0, jq_rc |-> 0, stdout |-> JqLines(Newest(n))] : n \in 0..MaxPR}
    \cup {[gh_rc |-> g, jq_rc |-> j, stdout |-> <<>>] : g, j \in {0, 1}}

----------------------------------------------------------------------------
(* graphics.plot_histogram.  A transform function is its name, and the     *)
(* value func(x) is the pair of the name and x.                            *)

Identity == "<lambda>"

\* [func(float(val)) for val in df[rows][metric_column_name].dropna().values],
\* the rows being those of group A (in_A) or those of another group
Transformed(frame, func, A, in_A) ==
    LET Kept(r) == ((r.author_login = A) <=> in_A) /\ r.time_to_merge_in_seconds # None
        rows == SelectSeq(frame, Kept)
    IN [i \in 1..Len(rows) |-> <<func, rows[i].time_to_merge_in_seconds[1]>>]

\* the values of the grouping column, of which list(set(...))[0] is one
Groups(frame) == {frame[i].author_login : i \in 1..Len(frame)}

\* lines 28-52 with A the group chosen at line 28: the identity is appended to
\* the list that was passed, and one figure of two histograms is drawn per
\* function of that list.  The list is returned as the call leaves it.
plot_histogram(frame, funcs, A) ==
    LET all == Append(funcs, Identity)
    IN [funcs |-> all,
        figures |-> [k \in 1..Len(all) |->
                        [func |-> all[k], group |-> A,
                         data_A |-> Transformed(frame, all[k], A, TRUE),
                         data_B |-> Transformed(frame, all[k], A, FALSE)]]]

----------------------------------------------------------------------------
(* cli.main *)

\* review.get("author", {}).get("login")
ReviewLogin(review) == IF review.login = NoAuthor THEN None ELSE Some(review.login)

AIReviews_first_only(reviews) ==
    LET Matches(r) == ReviewLogin(r) = Some(AILogin)
    IN Prefix(SelectSeq(reviews, Matches), 1)

\* [review for review in reviews if ...login == args.AILogin]
AIReviews(reviews) ==
    LET Matches(r) == ReviewLogin(r) = Some(AILogin) IN SelectSeq(reviews, Matches)

\* d[k] = v on a dict kept as the list of its items, in insertion order
DictSet(d, k, v) ==
    IF \E i \in 1..Len(d) : d[i].key = k
    THEN [i \in 1..Len(d) |-> IF d[i].key = k THEN [key |-> k, val |-> v] ELSE d[i]]
    ELSE Append(d, [key |-> k, val |-> v])

\* the loop of lines 94-97
RECURSIVE BuildAIReviews(_, _)
BuildAIReviews(entries, d) ==
    IF entries = <<>> THEN d
    ELSE BuildAIReviews(Tail(entries),
                        DictSet(d, Head(entries).number, AIReviews(Head(entries).reviews)))

\* the (key, review) pairs the nested loop of lines 99-100 visits, in order
RECURSIVE AIPairs(_)
AIPairs(d) ==
    IF d = <<>> THEN <<>>
    ELSE [i \in 1..Len(Head(d).val) |-> [key |-> Head(d).key, review |-> Head(d).val[i]]]
         \o AIPairs(Tail(d))

AIRecord(key, review, pr_state) ==
    [pr_number |-> key, review_id |-> Some(review.id),
     author_login |-> ReviewLogin(review), pr_state |-> pr_state]

NonAIRecord(pr_num, pr_state) ==
    [pr_number |-> pr_num, review_id |-> pr_state.id,
     author_login |-> Some("Non-AI Review"), pr_state |-> pr_state]

\* [int(value) for value in df['pr_number'].values]
ai_review_pr_numbers == [i \in 1..Len(df) |-> df[i].pr_number]

NonAINumbers_keep_all(latest, ai) == Range(latest)

\* set(latest_prs) - set(ai_review_pr_numbers)
NonAINumbers(latest, ai) == Range(latest) \ Range(ai)

\* non_ai_prs[:2*len(ai_review_pr_numbers)]
Sample == Prefix(non_ai_prs, 2 * Len(ai_review_pr_numbers))

\* frame['time_to_merge_in_seconds'] = frame['pr_state'].apply(...)
WithTimeToMerge(frame) ==
    [i \in 1..Len(frame) |->
        [pr_number |-> frame[i].pr_number, review_id |-> frame[i].review_id,
         author_login |-> frame[i].author_login, pr_state |-> frame[i].pr_state,
         time_to_merge_in_seconds |-> frame[i].pr_state.time_to_merge_in_seconds]]

\* frame[~frame['time_to_merge_in_seconds'].isna()]
DropNa(frame) ==
    LET Merged(r) == r.time_to_merge_in_seconds # None IN SelectSeq(frame, Merged)

\* the table of lines 148-153
FinalTable == WithTimeToMerge(df) \o DropNa(WithTimeToMerge(non_ai_records))

Cmd(name, pr, rc) == [cmd |-> name, pr |-> pr, rc |-> rc]

Raise(e) ==
    /\ pc' = "raised"
    /\ error' = e

\* lines 92-97: get_pr_comments, then the dict of matching reviews
GetPrComments ==
    /\ pc = "start"
    /\ \E rc \in {0, 1} :
        /\ cmds' = Append(cmds, Cmd("pr list reviews", 0, rc))
        /\ IF rc # 0
           THEN /\ Raise("CalledProcessError")
                /\ UNCHANGED <<prs_with_reviews, pr_2_AI_reviews, pos>>
           ELSE \E out \in ReviewListings :
                /\ prs_with_reviews' = out
                /\ pr_2_AI_reviews' = BuildAIReviews(out, <<>>)
                /\ pos' = 1
                /\ pc' = "ai_rows"
                /\ UNCHANGED error
    /\ UNCHANGED <<args, df, latest_prs, non_ai_prs, non_ai_records, csv_file, histograms, fn>>

\* lines 99-114: one (PR, review) pair: get_pr_open_closed_and_state, one record
AIRow ==
    /\ pc = "ai_rows"
    /\ pos <= Len(AIPairs(pr_2_AI_reviews))
    /\ LET pair == AIPairs(pr_2_AI_reviews)[pos]
       IN \E rc \in {0, 1} :
            /\ cmds' = Append(cmds, Cmd("pr view", pair.key, rc))
            /\ IF rc # 0
               THEN /\ Raise("CalledProcessError")
                    /\ UNCHANGED <<df, pos>>
               ELSE \E data \in PrViews(pair.key, args.status) :
                    /\ df' = Append(df, AIRecord(pair.key, pair.review,
                                                 get_pr_open_closed_and_state(data)))
                    /\ pos' = pos + 1
                    /\ UNCHANGED <<pc, error>>
    /\ UNCHANGED <<args, prs_with_reviews, pr_2_AI_reviews, latest_prs, non_ai_prs,
                   non_ai_records, csv_file, histograms, fn>>

\* lines 115-124: df['pr_number'] of a frame without rows is a KeyError;
\* get_list_of_all_prs; the set difference, listed in an order of the set's choosing
ListAllPrs ==
    /\ pc = "ai_rows"
    /\ pos > Len(AIPairs(pr_2_AI_reviews))
    /\ IF df = <<>>
       THEN /\ Raise("KeyError")
            /\ UNCHANGED <<cmds, latest_prs, non_ai_prs, pos>>
       ELSE \E run \in ListRuns :
            LET got == get_list_of_all_prs(run)
            IN /\ cmds' = Append(cmds, Cmd("pr list numbers", 0,
                                           IF got.raised THEN 1 ELSE 0))
               /\ IF got.raised
                  THEN /\ Raise("CalledProcessError")
                       /\ UNCHANGED <<latest_prs, non_ai_prs, pos>>
                  ELSE /\ latest_prs' = got.value
                       /\ non_ai_prs' \in
                            ListOfSet(NonAINumbers(got.value, ai_review_pr_numbers),
                                      2 * Len(ai_review_pr_numbers))
                       /\ pos' = 1
                       /\ pc' = "non_ai_rows"
                       /\ UNCHANGED error
    /\ UNCHANGED <<args, prs_with_reviews, pr_2_AI_reviews, df, non_ai_records,
                   csv_file, histograms, fn>>

NonAIRow_skip_failed ==
    /\ pc = "non_ai_rows"
    /\ pos <= Len(Sample)
    /\ \E rc \in {0, 1} :
        /\ cmds' = Append(cmds, Cmd("pr view", Sample[pos], rc))
        /\ IF rc # 0
           THEN UNCHANGED non_ai_records
           ELSE \E data \in PrViews(Sample[pos], args.status) :
                non_ai_records' = Append(non_ai_records,
                    NonAIRecord(Sample[pos], get_pr_open_closed_and_state(data)))
        /\ pos' = pos + 1
        /\ UNCHANGED <<pc, error>>
    /\ UNCHANGED <<args, prs_with_reviews, pr_2_AI_reviews, df, latest_prs, non_ai_prs,
                   csv_file, histograms, fn>>

\* lines 130-145: one sampled PR: get_pr_open_closed_and_state, one record
NonAIRow ==
    /\ pc = "non_ai_rows"
    /\ pos <= Len(Sample)
    /\ \E rc \in {0, 1} :
        /\ cmds' = Append(cmds, Cmd("pr view", Sample[pos], rc))
        /\ IF rc # 0
           THEN /\ Raise("CalledProcessError")
                /\ UNCHANGED <<non_ai_records, pos>>
           ELSE \E data \in PrViews(Sample[pos], args.status) :
                /\ non_ai_records' = Append(non_ai_records,
                        NonAIRecord(Sample[pos], get_pr_open_closed_and_state(data)))
                /\ pos' = pos + 1
                /\ UNCHANGED <<pc, error>>
    /\ UNCHANGED <<args, prs_with_reviews, pr_2_AI_reviews, df, latest_prs, non_ai_prs,
                   csv_file, histograms, fn>>

\* lines 146-158: non_ai_prs_df['pr_state'] of a frame without rows is a KeyError;
\* the two frames are joined and, with --csv_write, saved
Finish ==
    /\ pc = "non_ai_rows"
    /\ pos > Len(Sample)
    /\ IF non_ai_records = <<>>
       THEN /\ Raise("KeyError")
            /\ UNCHANGED <<df, csv_file>>
       ELSE /\ df' = FinalTable
            /\ csv_file' = IF args.csv_write THEN Some(FinalTable) ELSE csv_file
            /\ pc' = "done"
            /\ UNCHANGED error
    /\ UNCHANGED <<args, prs_with_reviews, pr_2_AI_reviews, pos, latest_prs, non_ai_prs,
                   non_ai_records, cmds, histograms, fn>>

\* a table saved by an earlier run
SavedTable ==
    <<[pr_number |-> 1, review_id |-> Some(11), author_login |-> Some(AILogin),
       pr_state |-> get_pr_open_closed_and_state(
                        [id |-> Some(1001), createdAt |-> Some(T0), mergedAt |-> Some(T1)]),
       time_to_merge_in_seconds |-> Some(86400)]>>

Entry_always_collects ==
    /\ pc = "entry"
    /\ pc' = "start"
    /\ UNCHANGED <<args, error, prs_with_reviews, pr_2_AI_reviews, pos, df, latest_prs,
                   non_ai_prs, non_ai_records, cmds, csv_file, histograms, fn>>

\* lines 160-166: without --csv_write the saved table is read, with it main runs
Entry ==
    /\ pc = "entry"
    /\ IF args.csv_write
       THEN /\ pc' = "start"
            /\ UNCHANGED <<df, error>>
       ELSE IF csv_file = None
            THEN /\ Raise("FileNotFoundError")
                 /\ UNCHANGED df
            ELSE /\ df' = csv_file[1]
                 /\ pc' = "plot"
                 /\ UNCHANGED error
    /\ UNCHANGED <<args, prs_with_reviews, pr_2_AI_reviews, pos, latest_prs, non_ai_prs,
                   non_ai_records, cmds, csv_file, histograms, fn>>

\* line 167: plot_histogram(df, 'author_login', 'time_to_merge_in_seconds',
\* funcs=[log]) on the table that was read or that main returned
Plot ==
    /\ pc \in {"plot", "done"}
    /\ \E A \in Groups(df) :
        histograms' = plot_histogram(df, <<"log">>, A).figures
    /\ pc' = "plotted"
    /\ UNCHANGED <<args, error, prs_with_reviews, pr_2_AI_reviews, pos, df, latest_prs,
                   non_ai_prs, non_ai_records, cmds, csv_file, fn>>

Init ==
    /\ args \in [status : Statuses, csv_write : BOOLEAN]
    /\ pc = "entry"
    /\ error = "none"
    /\ prs_with_reviews = <<>>
    /\ pr_2_AI_reviews = <<>>
    /\ pos = 0
    /\ df = <<>>
    /\ latest_prs = <<>>
    /\ non_ai_prs = <<>>
    /\ non_ai_records = <<>>
    /\ cmds = <<>>
    /\ csv_file \in (IF args.csv_write THEN {None} ELSE {None, Some(SavedTable)})
    /\ histograms = <<>>
    /\ fn = [pc |-> "idle"]

Next ==
    \/ Entry
    \/ GetPrComments
    \/ AIRow
    \/ ListAllPrs
    \/ NonAIRow
    \/ Finish
    \/ Plot

Spec == Init /\ [][Next]_vars

----------------------------------------------------------------------------
(* Properties of cli.main *)

\* PR numbers with at least one review by the target login in the review listing
AIReviewed ==
    {prs_with_reviews[i].number : i \in
        {j \in 1..Len(prs_with_reviews) :
            \E k \in 1..Len(prs_with_reviews[j].reviews) :
                prs_with_reviews[j].reviews[k].login = AILogin}}

AllListed == Range(latest_prs)

NonAI == Range(non_ai_prs)

\* C1 as stated: non_ai = U - A holds no element of A, and A \cup non_ai is a
\* subset of U, whatever the two listings return.
C1_UnionWithinListing ==
    pc = "non_ai_rows" => /\ NonAI \cap AIReviewed = {}
                          /\ (AIReviewed \cup NonAI) \subseteq AllListed

\* C1 amended: non_ai = U - A holds no element of A and is a subset of U, and
\* A \cup non_ai is A \cup U: it is within U exactly when the number listing
\* holds every AI-reviewed PR.
C1_Difference ==
    pc = "non_ai_rows" =>
        /\ NonAI \cap AIReviewed = {}
        /\ NonAI \subseteq AllListed
        /\ AIReviewed \cup NonAI = AIReviewed \cup AllListed
        /\ ((AIReviewed \cup NonAI) \subseteq AllListed <=> AIReviewed \subseteq AllListed)

\* an AI-reviewed PR is missing from the number listing, and PRs are left over
C1_Witness ==
    /\ pc = "non_ai_rows"
    /\ AIReviewed # {}
    /\ ~(AIReviewed \subseteq AllListed)
    /\ NonAI # {}

\* C2 as stated: no row of the table main returns (and writes) has a null
\* time_to_merge_in_seconds.
C2_NoNullTimeToMerge ==
    pc = "done" =>
        /\ \A i \in 1..Len(df) : df[i].time_to_merge_in_seconds # None
        /\ csv_file # None =>
             \A i \in 1..Len(csv_file[1]) : csv_file[1][i].time_to_merge_in_seconds # None

\* the (PR number, review id) pairs of the listing whose review is by the target
\* login, entry by entry and review by review
RECURSIVE MatchingOf(_, _)
MatchingOf(number, reviews) ==
    IF reviews = <<>> THEN <<>>
    ELSE (IF Head(reviews).login = AILogin THEN <<<<number, Head(reviews).id>>>> ELSE <<>>)
         \o MatchingOf(number, Tail(reviews))

RECURSIVE MatchingPairs(_)
MatchingPairs(entries) ==
    IF entries = <<>> THEN <<>>
    ELSE MatchingOf(Head(entries).number, Head(entries).reviews)
         \o MatchingPairs(Tail(entries))

RowKeys(frame) == [i \in 1..Len(frame) |-> <<frame[i].pr_number, frame[i].review_id[1]>>]

AIRowsOf(frame) ==
    LET ByReviewer(r) == r.author_login # Some("Non-AI Review") IN SelectSeq(frame, ByReviewer)

\* C3: the AI rows are exactly the (PR, review) pairs of the review listing whose
\* review is by the target login, one row per matching review, none for another
\* login or a missing author.
C3_AIRowsAreMatchingPairs ==
    /\ pc = "ai_rows" =>
         RowKeys(df) = Prefix(MatchingPairs(prs_with_reviews), pos - 1)
    /\ pc = "non_ai_rows" =>
         /\ RowKeys(df) = MatchingPairs(prs_with_reviews)
         /\ Range(ai_review_pr_numbers) = AIReviewed
    /\ pc = "done" => RowKeys(AIRowsOf(df)) = MatchingPairs(prs_with_reviews)
    /\ pc \in {"ai_rows", "non_ai_rows"} =>
         \A i \in 1..Len(df) : df[i].author_login = Some(AILogin)

\* 3 PRs, #1 and #3 with one matching review each, #2 with none: 2 rows,
\* AI-reviewed {1, 3}, non-AI candidates {2}
C3_Witness ==
    /\ pc = "non_ai_rows"
    /\ Len(prs_with_reviews) = 3
    /\ MatchingPairs(prs_with_reviews) = <<<<3, 31>>, <<1, 11>>>>
    /\ Len(df) = 2
    /\ AllListed = {1, 2, 3}
    /\ AIReviewed = {1, 3}
    /\ NonAI = {2}

\* C4 as stated: min(|non_ai_numbers|, 2 x |ai_reviewed|) non-AI PRs are sampled,
\* a PR with several matching reviews counting once.
C4_SampleSize ==
    (pc = "non_ai_rows" /\ pos > Len(Sample)) =>
        Len(non_ai_records) = Min(Cardinality(NonAI), 2 * Cardinality(AIReviewed))

\* C5 as stated: a non-AI row has review_id null and author_login "Non-AI Review".
C5_NonAIReviewIdNull ==
    \A i \in 1..Len(non_ai_records) :
        /\ non_ai_records[i].review_id = None
        /\ non_ai_records[i].author_login = Some("Non-AI Review")

C12_NoAIReviewCompletes ==
    (/\ Len(cmds) >= 1
     /\ \A i \in 1..Len(cmds) : cmds[i].rc = 0
     /\ AIReviewed = {}) =>
        /\ pc # "raised"
        /\ pc = "done" => AIRowsOf(df) = <<>>

\* every fetch of a run of main was made and succeeded: the review listing,
\* one view per AI row, the number listing, one view per sampled PR
AllFetchesSucceeded ==
    /\ pc = "non_ai_rows"
    /\ pos > Len(Sample)
    /\ Len(cmds) = 2 + Len(df) + Len(Sample)
    /\ \A i \in 1..Len(cmds) : cmds[i].rc = 0

\* C13: without --csv_write no command is issued and the CSV file is left as it
\* is, the table being the one read from the file; a command is issued only with
\* --csv_write, and the file is written only with --csv_write and after every
\* fetch has succeeded.
C13_CollectOnlyWithFlag ==
    [][/\ ~args.csv_write => (cmds' = cmds /\ csv_file' = csv_file)
       /\ (~args.csv_write /\ pc \in {"plot", "plotted"}) =>
            (csv_file # None /\ df = csv_file[1])
       /\ cmds' # cmds => args.csv_write
       /\ csv_file' # csv_file =>
            (args.csv_write /\ cmds' = cmds /\ AllFetchesSucceeded)]_vars

\* the saved table was read and plotted without any command
C13_Witness ==
    /\ ~args.csv_write
    /\ pc = "plotted"
    /\ cmds = <<>>
    /\ csv_file = Some(SavedTable)
    /\ df = SavedTable
    /\ histograms # <<>>

----------------------------------------------------------------------------
(* The functions of repo_utils and input_output, each called on its own.   *)
(* main is not running: its variables rest.                                *)

MainAtRest ==
    /\ args = [status |-> "merged", csv_write |-> FALSE]
    /\ pc = "off"
    /\ error = "none"
    /\ prs_with_reviews = <<>>
    /\ pr_2_AI_reviews = <<>>
    /\ pos = 0
    /\ df = <<>>
    /\ latest_prs = <<>>
    /\ non_ai_prs = <<>>
    /\ non_ai_records = <<>>
    /\ cmds = <<>>
    /\ csv_file = None
    /\ histograms = <<>>

(* get_pr_open_closed_and_state *)

Timestamps ==
    {<<2023, 2, 28, 23, 59, 59>>, <<2023, 3, 1, 0, 0, 0>>, <<2023, 12, 31, 23, 59, 59>>,
     T0, T1, <<2024, 2, 28, 12, 0, 0>>, <<2024, 3, 1, 12, 0, 30>>,
     <<2024, 12, 31, 6, 30, 0>>}

\* createdAt and mergedAt of the JSON of `gh pr view`, either of them null
PrViewInputs ==
    {[id |-> Some(1001), createdAt |-> c, mergedAt |-> m] :
        c, m \in {None} \cup {Some(t) : t \in Timestamps}}

InitDetail ==
    /\ MainAtRest
    /\ fn \in {[pc |-> "call", rc |-> rc, data |-> d, raised |-> FALSE, result |-> None] :
                rc \in {0, 1}, d \in PrViewInputs}

\* lines 153-173: the command, then the dict with the derived field
PrStateCall ==
    /\ fn.pc = "call"
    /\ fn' = IF fn.rc # 0
             THEN [fn EXCEPT !.pc = "done", !.raised = TRUE]
             ELSE [fn EXCEPT !.pc = "done",
                             !.result = Some(get_pr_open_closed_and_state(fn.data))]
    /\ UNCHANGED mainVars

SpecDetail == InitDetail /\ [][PrStateCall]_vars

\* the calendar, month by month
DaysIn(y, m) ==
    CASE m \in {4, 6, 9, 11} -> 30
      [] m = 2 -> IF (y % 4 = 0 /\ y % 100 # 0) \/ y % 400 = 0 THEN 29 ELSE 28
      [] OTHER -> 31

FirstOfNextMonth(d) == IF d[2] < 12 THEN <<d[1], d[2] + 1, 1>> ELSE <<d[1] + 1, 1, 1>>

DateOf(t) == <<t[1], t[2], t[3]>>

NotAfter(a, b) ==
    \/ a[1] < b[1]
    \/ a[1] = b[1] /\ a[2] < b[2]
    \/ a[1] = b[1] /\ a[2] = b[2] /\ a[3] <= b[3]

RECURSIVE DaysUntil(_, _)
DaysUntil(a, b) ==
    IF a[1] = b[1] /\ a[2] = b[2] THEN b[3] - a[3]
    ELSE (DaysIn(a[1], a[2]) - a[3] + 1) + DaysUntil(FirstOfNextMonth(a), b)

\* seconds from timestamp c to timestamp m, counted on the calendar
Elapsed(c, m) ==
    LET clock == (m[4] - c[4]) * 3600 + (m[5] - c[5]) * 60 + (m[6] - c[6])
    IN IF NotAfter(DateOf(c), DateOf(m))
       THEN DaysUntil(DateOf(c), DateOf(m)) * 86400 + clock
       ELSE clock - DaysUntil(DateOf(m), DateOf(c)) * 86400

\* C6: time_to_merge_in_seconds is mergedAt minus createdAt in seconds when both
\* are present (86400 from 2024-01-01T00:00:00Z to 2024-01-02T00:00:00Z), and
\* null when either is absent.
C6_TimeToMerge ==
    (fn.pc = "done" /\ ~fn.raised) =>
        LET c == fn.data.createdAt
            m == fn.data.mergedAt
            got == fn.result[1].time_to_merge_in_seconds
        IN /\ (c # None /\ m # None) => got = Some(Elapsed(c[1], m[1]))
           /\ (c = None \/ m = None) => got = None
           /\ (c = Some(T0) /\ m = Some(T1)) => got = Some(86400)

C6_Witness ==
    /\ fn.pc = "done"
    /\ ~fn.raised
    /\ fn.data.createdAt = Some(<<2024, 1, 1, 0, 0, 0>>)
    /\ fn.data.mergedAt = Some(<<2024, 1, 2, 0, 0, 0>>)
    /\ fn.result[1].time_to_merge_in_seconds = Some(86400)

(* get_list_of_all_prs *)

\* lines the tool prints in one run
MaxLines == 3

ListedNumbers == {3, 7, 12, 105}

NumberLists == UNION {[1..k -> ListedNumbers] : k \in 0..MaxLines}

\* runs of the pipeline: the numbers jq printed, or a failure of gh or of jq
ListCallRuns ==
    {[gh_rc |-> 0, jq_rc |-> 0, nums |-> nums, stdout |-> JqLines(nums)] :
        nums \in NumberLists}
    \cup {[gh_rc |-> g, jq_rc |-> j, nums |-> <<>>, stdout |-> <<>>] : g, j \in {0, 1}}

InitList ==
    /\ MainAtRest
    /\ fn \in {[pc |-> "call", run |-> r, raised |-> FALSE, result |-> <<>>] :
                r \in ListCallRuns}

\* lines 102-112
ListCall ==
    /\ fn.pc = "call"
    /\ LET got == get_list_of_all_prs(fn.run)
       IN fn' = [fn EXCEPT !.pc = "done", !.raised = got.raised, !.result = got.value]
    /\ UNCHANGED mainVars

SpecList == InitList /\ [][ListCall]_vars

\* C8 as stated: the call raises when the tool exits non-zero, and otherwise
\* returns the printed numbers, one per non-empty line, in order (none for an
\* empty output).
C8_RaisesWhenToolFails ==
    fn.pc = "done" =>
        /\ (fn.run.gh_rc # 0 \/ fn.run.jq_rc # 0) => fn.raised
        /\ (fn.run.gh_rc = 0 /\ fn.run.jq_rc = 0) =>
             (~fn.raised /\ fn.result = fn.run.nums)

(* input_output: write_csv and read_csv *)

\* rows of a table handed to write_csv
MaxRows == 2

FieldNames == <<"pr_number", "review_id">>

\* values of a field: None, an integer, a string
IntValue(n) == [type |-> "int", int |-> n, text |-> <<>>]

TextValue(t) == [type |-> "str", int |-> 0, text |-> t]

NoneValue == [type |-> "none", int |-> 0, text |-> <<>>]

FieldValues == {NoneValue, IntValue(7), IntValue(12), TextValue(<<"N", "/", "A">>)}

Records == [{"pr_number", "review_id"} -> FieldValues]

Tables == UNION {[1..k -> Records] : k \in 0..MaxRows}

\* the text csv.writer puts in a cell: '' for None, str(value) otherwise
CellText(v) ==
    CASE v.type = "none" -> <<>>
      [] v.type = "int" -> str(v.int)
      [] OTHER -> v.text

\* a CSV file: the header line and the lines under it, cell by cell
CsvOf(data) ==
    [header |-> FieldNames,
     rows |-> [i \in 1..Len(data) |-> [j \in 1..Len(FieldNames) |->
                    CellText(data[i][FieldNames[j]])]]]

\* a file left at the path by an earlier call
StaleCsv == CsvOf(<<[pr_number |-> IntValue(7), review_id |-> NoneValue]>>)

\* lines 33-41: nothing is written, and the file is left as it is, without data
write_csv(file, data) ==
    IF data = <<>> THEN file ELSE Some(CsvOf(data))

\* lines 22-24: one dict per line under the header, keyed by the header
read_csv(file) ==
    IF file = None
    THEN [raised |-> TRUE, value |-> <<>>]
    ELSE [raised |-> FALSE,
          value |-> [i \in 1..Len(file[1].rows) |->
                        [f \in Range(file[1].header) |->
                            file[1].rows[i][CHOOSE j \in 1..Len(file[1].header) :
                                                file[1].header[j] = f]]]]

InitCsv ==
    /\ MainAtRest
    /\ fn \in {[pc |-> "write", data |-> d, file |-> f, raised |-> FALSE, got |-> <<>>] :
                d \in Tables, f \in {None, Some(StaleCsv)}}

WriteCsv ==
    /\ fn.pc = "write"
    /\ fn' = [fn EXCEPT !.pc = "read", !.file = write_csv(fn.file, fn.data)]
    /\ UNCHANGED mainVars

ReadCsv ==
    /\ fn.pc = "read"
    /\ LET r == read_csv(fn.file)
       IN fn' = [fn EXCEPT !.pc = "done", !.raised = r.raised, !.got = r.value]
    /\ UNCHANGED mainVars

NextCsv ==
    \/ WriteCsv
    \/ ReadCsv

SpecCsv == InitCsv /\ [][NextCsv]_vars

\* C9 as stated: read_csv after write_csv on the same path gives as many rows
\* as were written, each non-null field with its value as a string, also for
\* a table without rows.
C9_RoundTrip ==
    fn.pc = "done" =>
        /\ ~fn.raised
        /\ Len(fn.got) = Len(fn.data)
        /\ \A i \in 1..Len(fn.data) : \A f \in DOMAIN fn.data[i] :
             fn.data[i][f].type # "none" =>
                fn.got[i][f] = (IF fn.data[i][f].type = "int"
                                THEN str(fn.data[i][f].int) ELSE fn.data[i][f].text)

(* get_code_review_instructions *)

\* characters of an instructions file
MaxChars == 2

FileTexts == UNION {[1..k -> {"a", "b"}] : k \in 0..MaxChars}

Paths == {".github/copilot-instructions.md", "docs/instructions.md"}

\* a file system: each path holds no file (None) or a file with its text
FileSystems == [Paths -> {None} \cup {Some(t) : t \in FileTexts}]

get_code_review_instructions_uncaught(fs, filepath_and_name) ==
    IF fs[filepath_and_name] # None
    THEN [raised |-> FALSE, value |-> fs[filepath_and_name], warnings |-> 0]
    ELSE [raised |-> TRUE, value |-> None, warnings |-> 0]

\* lines 69-77
get_code_review_instructions(fs, filepath_and_name) ==
    IF fs[filepath_and_name] # None
    THEN [raised |-> FALSE, value |-> fs[filepath_and_name], warnings |-> 0]
    ELSE [raised |-> FALSE, value |-> None, warnings |-> 1]

InitInstructions ==
    /\ MainAtRest
    /\ fn \in {[pc |-> "call", fs |-> fs, path |-> p, raised |-> FALSE, result |-> None,
                warnings |-> 0] : fs \in FileSystems, p \in Paths}

InstructionsCall ==
    /\ fn.pc = "call"
    /\ LET r == get_code_review_instructions(fn.fs, fn.path)
       IN fn' = [fn EXCEPT !.pc = "done", !.raised = r.raised, !.result = r.value,
                           !.warnings = r.warnings]
    /\ UNCHANGED mainVars

SpecInstructions == InitInstructions /\ [][InstructionsCall]_vars

\* C10: the call returns the text of the file when the file exists, and
\* returns None without raising, with one warning logged, when it does not.
C10_TextOrNone ==
    fn.pc = "done" =>
        /\ ~fn.raised
        /\ fn.fs[fn.path] # None => (fn.result = fn.fs[fn.path] /\ fn.warnings = 0)
        /\ fn.fs[fn.path] = None => (fn.result = None /\ fn.warnings = 1)

\* the file asked for is missing while another file exists
C10_Witness ==
    /\ fn.pc = "done"
    /\ fn.fs[fn.path] = None
    /\ \E p \in Paths : fn.fs[p] # None
    /\ fn.result = None
    /\ ~fn.raised

(* plot_histogram called several times by a caller that keeps its list *)

\* rows of a plotted table
MaxPlotRows == 2

\* calls of plot_histogram in a row
MaxCalls == 2

PlotRows ==
    [author_login : {Some(AILogin), Some("Non-AI Review")},
     time_to_merge_in_seconds : {None, Some(3600), Some(86400)}]

PlotFrames == UNION {[1..k -> PlotRows] : k \in 0..MaxPlotRows}

\* the lists of transform functions a caller configures
ConfiguredLists == {<<>>, <<"log">>, <<"log", "sqrt">>}

InitPlot ==
    /\ MainAtRest
    /\ fn \in {[pc |-> "ready", frame |-> f, configured |-> c, funcs |-> c, calls |-> 0,
                figures |-> <<>>] : f \in PlotFrames, c \in ConfiguredLists}

\* a call that passes the list object the caller keeps; line 28 fails with an
\* IndexError on a table without rows
PlotSameList ==
    /\ fn.pc = "ready"
    /\ fn.calls < MaxCalls
    /\ IF fn.frame = <<>>
       THEN fn' = [fn EXCEPT !.pc = "raised"]
       ELSE \E A \in Groups(fn.frame) :
            LET r == plot_histogram(fn.frame, fn.funcs, A)
            IN fn' = [fn EXCEPT !.funcs = r.funcs, !.figures = r.figures,
                                !.calls = fn.calls + 1]
    /\ UNCHANGED mainVars

\* a call that passes a new list of the configured functions, as cli.py:167 does
PlotNewList ==
    /\ fn.pc = "ready"
    /\ fn.calls < MaxCalls
    /\ IF fn.frame = <<>>
       THEN fn' = [fn EXCEPT !.pc = "raised"]
       ELSE \E A \in Groups(fn.frame) :
            LET r == plot_histogram(fn.frame, fn.configured, A)
            IN fn' = [fn EXCEPT !.figures = r.figures, !.calls = fn.calls + 1]
    /\ UNCHANGED mainVars

NextPlot ==
    \/ PlotSameList
    \/ PlotNewList

SpecPlot == InitPlot /\ [][NextPlot]_vars

NonNullRows(frame) ==
    Cardinality({i \in 1..Len(frame) : frame[i].time_to_merge_in_seconds # None})

\* C11 as stated: every call with a configured list of n functions draws n + 1
\* figures, one per configured function and one for the identity, each
\* splitting the rows with a non-null metric between group A and "not A",
\* also when the same list object is passed again.
C11_OneFigurePerFunction ==
    (fn.pc = "ready" /\ fn.calls >= 1) =>
        /\ Len(fn.figures) = Len(fn.configured) + 1
        /\ \A k \in 1..Len(fn.figures) :
             Len(fn.figures[k].data_A) + Len(fn.figures[k].data_B) = NonNullRows(fn.frame)

====
